---- MODULE Spec2Model ----
(***************************************************************************)
(* sysjitter (src/sysjitter.c): one worker thread per core spins reading   *)
(* the cycle counter and records every gap >= a threshold; main() runs a   *)
(* 1-second calibration experiment, sizes the buffers from it and runs the *)
(* full experiment; the statistics are computed from the sorted buffers.   *)
(*                                                                         *)
(* One step of the model is one access of a worker or of main() to shared  *)
(* memory (g.cmd, the g.n_threads_* counters), one read of the cycle       *)
(* counter, or the SIGALRM handler; the thread-local code between two such *)
(* accesses belongs to the step that follows it.                           *)
(***************************************************************************)
EXTENDS Integers, Sequences, FiniteSets, TLC

(***************************************************************************)
(* Bounds of the model.                                                    *)
(***************************************************************************)
\* The cores the process runs a worker on: threads[] is indexed by them.
Threads == {0, 1}
\* The cycle counter advances by at most MaxTicks in a behaviour ...
MaxTicks == 1
\* ... and by at most MaxJump between two consecutive reads.
MaxJump == 1
\* A worker takes at most MaxRecords records in one run (the full run's
\* capacity is in the thousands).
MaxRecords == 2
\* The --max values tried are 0 .. MaxMaxOpt (and the default).
MaxMaxOpt == 2
\* The THRESHOLD_NSEC values tried are the multiples of 10 up to
\* MaxThresholdNsec (10 ns are one tick of the counters of HzSet).
MaxThresholdNsec == 10
\* The buffers the statistics are computed from hold at most MaxGaps records.
MaxGaps == 3
\* The machine has NProcs processors (get_nprocs_conf) ...
NProcs == 3
\* ... and a --cores argument has at most MaxTokens comma-separated parts.
MaxTokens == 2
\* Width in bits of int and unsigned (32 in the build) and of uint64_t
\* (64 in the build): the model keeps the wrap-around and the truncation
\* of the C types at widths whose values the model checker can hold; every
\* program constant below fits the scaled int as it fits the real one.
IntBits == 26
CycleBits == 28

(***************************************************************************)
(* Program constants.                                                      *)
(***************************************************************************)
\* g.max_interruptions = 1000000 (main)
DefaultMaxInterruptions == 1000000
\* int runtime = 70 (main)
DefaultRuntime == 70
\* run_expt(threads, 1): the calibration run lasts one second
CalibrationSecs == 1
\* if( per_sec < 1000 ) per_sec = 1000 (calc_max_interruptions)
MinPerSec == 1000
\* sizeof(struct interruption): two uint64_t
SizeofInterruption == 16
\* exit(2) of post_test_checks, exit(1) of test_fail
ExitOverflow == 2
ExitTestFail == 1
\* exit(1) of usage_err, exit(2) of a badly formatted --cores argument,
\* exit(1) when the processors run out, exit(0) of --help and --version
ExitUsage == 1
ExitBadCores == 2
ExitNprocs == 1
ExitHelp == 0

IntMod == 2 ^ IntBits
CyclesMod == 2 ^ CycleBits

\* enum command
WAIT == "WAIT"
GO == "GO"
STOP == "STOP"

\* Values __measure_cpu_hz() returns (counter ticks per second).
HzSet == {100500000, 100900000}
\* Values of the cycle counter when the program starts: the counter wraps
\* around at its first tick.
FrcStarts == {CyclesMod - 1}

VARIABLES
  g,              \* struct global g
  threads,        \* struct thread threads[]: the fields main() and the workers share
  pc,             \* pc[t]: where worker t is in thread_main ("none": never
                  \* created, "joined": the last one was joined)
  local,          \* local[t]: the locals of thread_main/doit/measure_cpu_mhz of worker t
  main,           \* main()'s position, loop index i and local runtime
  alarm_pending,  \* an alarm(2) timer is armed and SIGALRM not yet delivered
  tsc,            \* the value the cycle counter last returned
  ticks,          \* how far the cycle counter has advanced in this behaviour
  exit_status     \* whether the process runs, and else how it ended

vars == <<g, threads, pc, local, main, alarm_pending, tsc, ticks, exit_status>>

(***************************************************************************)
(* C arithmetic.                                                           *)
(***************************************************************************)
\* a value converted to unsigned / to uint64_t
ToUnsigned(x) == x % IntMod
ToCycles(x) == x % CyclesMod
\* a value converted to int: the low IntBits bits, two's complement
ToInt(x) == LET u == x % IntMod IN IF u >= IntMod \div 2 THEN u - IntMod ELSE u

\* frc(): the counter is d ticks further than at the previous read
Frc(d) == ToCycles(tsc + d)
Jumps == {d \in 0 .. MaxJump : ticks + d <= MaxTicks}

\* struct thread before anything is stored in it (the program writes every
\* field before it reads it).  interruptions holds the
\* slots of the buffer written so far, allocated the number of records the
\* malloc'ed bytes hold (-1: no buffer), c_interruption the cursor as an
\* index into the buffer, sorted the array of pointers as 1-based positions
\* in interruptions.
NullThread == [cpu_mhz |-> 0, interruptions |-> <<>>, allocated |-> -1,
               c_interruption |-> 0, int_total |-> 0,
               frc_start |-> 0, frc_stop |-> 0,
               sorted |-> <<>>, runtime |-> 0, int_n |-> 0, int_min |-> 0,
               int_max |-> 0, int_mean |-> 0, int_median |-> 0, int_90 |-> 0,
               int_99 |-> 0, int_999 |-> 0, int_9999 |-> 0, int_99999 |-> 0]
NullLocal == [i |-> 0, prev_ts |-> 0, int_total |-> 0, threshold_cycles |-> 0,
              mprev |-> 0]

\* How the process stands: running, ended by exit(code), or killed by a signal.
StillRunning == [kind |-> "running", code |-> 0]
Exited(code) == [kind |-> "exit", code |-> code]
Killed == [kind |-> "signal", code |-> 11]
Running == exit_status = StillRunning

\* t->c_interruption - t->interruptions
Count(t) == threads[t].c_interruption

(***************************************************************************)
(* The state after main() has parsed its arguments (lines 660-741): the    *)
(* options are any of the bounded values, no worker exists, no timer is    *)
(* armed, and main() is about to call run_expt(threads, 1).                *)
(***************************************************************************)
MaxOpts == (0 .. MaxMaxOpt) \cup {DefaultMaxInterruptions}
\* The --runtime values tried: 0, which arms no timer, and the default.
RuntimeOpts == {0, DefaultRuntime}
ThresholdOpts == {n \in 0 .. MaxThresholdNsec : n % 10 = 0}

Init ==
  /\ \E m \in MaxOpts, th \in ThresholdOpts :
       g = [max_interruptions |-> m, runtime_secs |-> 0, threshold_nsec |-> th,
            n_threads |-> Cardinality(Threads), cmd |-> WAIT,
            n_threads_started |-> 0, n_threads_running |-> 0,
            n_threads_finished |-> 0]
  /\ threads = [t \in Threads |-> NullThread]
  /\ pc = [t \in Threads |-> "none"]
  /\ local = [t \in Threads |-> NullLocal]
  /\ \E r \in RuntimeOpts :
       main = [pc |-> "run_expt", i |-> 0, runtime |-> r, run |-> 1]
  /\ alarm_pending = FALSE
  /\ tsc \in FrcStarts
  /\ ticks = 0
  /\ exit_status = StillRunning

(***************************************************************************)
(* thread_main, lines 289-328.                                             *)
(***************************************************************************)
\* int bytes = g.max_interruptions * sizeof(struct interruption)  (line 238)
Bytes == ToInt(g.max_interruptions * SizeofInterruption)

\* thread_init, lines 236-243: the buffer is allocated and zeroed (the model
\* keeps the slots written so far) and the cursor set to its start.
thread_init(t) ==
  [threads EXCEPT ![t].interruptions = <<>>,
                  ![t].allocated = Bytes \div SizeofInterruption,
                  ![t].c_interruption = 0,
                  ![t].sorted = <<>>]

\* Lines 301-305: move_to_core and thread_init, then
\* atomic_inc(&g.n_threads_started).  malloc fails when the byte count is
\* negative (a size beyond any address space) and may fail otherwise; TEST()
\* then ends the process.
ThreadStart(t) ==
  /\ Running
  /\ pc[t] = "thread_main"
  /\ \/ /\ Bytes >= 0
        /\ threads' = thread_init(t)
        /\ g' = [g EXCEPT !.n_threads_started = ToUnsigned(@ + 1)]
        /\ pc' = [pc EXCEPT ![t] = "wait_go"]
        /\ UNCHANGED exit_status
     \/ /\ exit_status' = Exited(ExitTestFail)
        /\ UNCHANGED <<g, threads, pc>>
  /\ UNCHANGED <<local, main, alarm_pending, tsc, ticks>>

\* Lines 306-307: while( g.cmd == WAIT ) usleep(1000); then the first
\* __measure_cpu_hz() of measure_cpu_mhz (line 224).
WaitGo(t) ==
  /\ Running
  /\ pc[t] = "wait_go"
  /\ g.cmd # WAIT
  /\ \E m \in HzSet : local' = [local EXCEPT ![t].mprev = m]
  /\ pc' = [pc EXCEPT ![t] = "measure"]
  /\ UNCHANGED <<g, threads, main, alarm_pending, tsc, ticks, exit_status>>

\* measure_cpu_mhz, lines 225-232: one more measurement m; the loop ends
\* when it differs from the previous one by at most m / 1000.
Stable(m, mprev) ==
  LET d == IF m > mprev THEN m - mprev ELSE mprev - m
  IN  ~ (d > m \div 1000)

MeasureAgain(t) ==
  /\ Running
  /\ pc[t] = "measure"
  /\ \E m \in HzSet :
       /\ ~ Stable(m, local[t].mprev)
       /\ local' = [local EXCEPT ![t].mprev = m]
  /\ UNCHANGED <<g, threads, pc, main, alarm_pending, tsc, ticks, exit_status>>

\* Lines 309-312: t->cpu_mhz = measure_cpu_mhz(), which returns
\* m / 1000000 of the last measurement, then
\* atomic_inc(&g.n_threads_running).
MeasureDone(t) ==
  /\ Running
  /\ pc[t] = "measure"
  /\ \E m \in HzSet :
       /\ Stable(m, local[t].mprev)
       /\ threads' = [threads EXCEPT ![t].cpu_mhz = ToUnsigned(m \div 1000000)]
  /\ local' = [local EXCEPT ![t].mprev = 0]
  /\ g' = [g EXCEPT !.n_threads_running = ToUnsigned(@ + 1)]
  /\ pc' = [pc EXCEPT ![t] = "start_barrier"]
  /\ UNCHANGED <<main, alarm_pending, tsc, ticks, exit_status>>

\* Mutant of StartBarrierOpen: a worker waits for one running worker only.
StartBarrierOpenForOne == g.n_threads_running # 0

\* Line 313: the condition that lets a worker leave the start barrier
StartBarrierOpen == g.n_threads_running = g.n_threads

\* Lines 313-316: while( g.n_threads_running != g.n_threads ) relax();
\* then frc(&t->frc_start).
StartBarrier(t) ==
  /\ Running
  /\ pc[t] = "start_barrier"
  /\ StartBarrierOpen
  /\ \E d \in Jumps :
       /\ threads' = [threads EXCEPT ![t].frc_start = Frc(d)]
       /\ tsc' = Frc(d)
       /\ ticks' = ticks + d
  /\ pc' = [pc EXCEPT ![t] = "doit"]
  /\ UNCHANGED <<g, local, main, alarm_pending, exit_status>>

\* (cycles_t) g.threshold_nsec * t->cpu_mhz / 1000  (line 317)
ThresholdCycles(t) == ToCycles(g.threshold_nsec * threads[t].cpu_mhz) \div 1000

\* Lines 266-271: the locals of doit and frc(&prev_ts).
DoitEnter(t) ==
  /\ Running
  /\ pc[t] = "doit"
  /\ \E d \in Jumps :
       /\ local' = [local EXCEPT ![t].i = 0, ![t].int_total = 0,
                                 ![t].threshold_cycles = ThresholdCycles(t),
                                 ![t].prev_ts = Frc(d)]
       /\ tsc' = Frc(d)
       /\ ticks' = ticks + d
  /\ pc' = [pc EXCEPT ![t] = "loop"]
  /\ UNCHANGED <<g, threads, main, alarm_pending, exit_status>>

\* Lines 284-285: t->c_interruption = i; t->int_total = int_total, with the
\* locals l of doit.
DoitReturn(t, thr, l) ==
  [thr EXCEPT ![t].c_interruption = l.i, ![t].int_total = l.int_total]

\* Mutant of LoopCheck: the command is tested after the pass, not before it
\* (a do-while loop).
LoopCheckAfter(t) ==
  /\ Running
  /\ pc[t] = "loop"
  /\ \/ /\ local[t].i = 0 \/ g.cmd = GO
        /\ local[t].i < MaxRecords \/ local[t].i >= threads[t].allocated
        /\ pc' = [pc EXCEPT ![t] = "sample"]
        /\ UNCHANGED threads
     \/ /\ g.cmd # GO
        /\ local[t].i > 0
        /\ threads' = [threads EXCEPT ![t].c_interruption = local[t].i,
                                      ![t].int_total = local[t].int_total]
        /\ pc' = [pc EXCEPT ![t] = "frc_stop"]
  /\ UNCHANGED <<g, local, main, alarm_pending, tsc, ticks, exit_status>>

\* Line 272: while( g.cmd == GO ), and lines 284-285 when the loop ends.
\* The model lets a worker that has taken MaxRecords records inside its
\* buffer wait for the command to change.
LoopCheck(t) ==
  /\ Running
  /\ pc[t] = "loop"
  /\ \/ /\ g.cmd = GO
        /\ local[t].i < MaxRecords \/ local[t].i >= threads[t].allocated
        /\ pc' = [pc EXCEPT ![t] = "sample"]
        /\ UNCHANGED threads
     \/ /\ g.cmd # GO
        /\ threads' = DoitReturn(t, threads, local[t])
        /\ pc' = [pc EXCEPT ![t] = "frc_stop"]
  /\ UNCHANGED <<g, local, main, alarm_pending, tsc, ticks, exit_status>>

\* Mutant of Accumulate: the total counts the records instead of adding
\* their gaps.
AccumulateCount(int_total, diff) == ToCycles(int_total + 1)

\* Mutant of Accumulate: every gap is added twice.
AccumulateTwice(int_total, diff) == ToCycles(int_total + 2 * diff)

\* Line 277: int_total += i->diff
Accumulate(int_total, diff) == ToCycles(int_total + diff)

\* Mutant of Qualifies: the threshold is not looked at.
QualifiesAlways(diff, threshold_cycles) == diff >= 0

\* Line 276: if( i->diff >= threshold_cycles )
Qualifies(diff, threshold_cycles) == diff >= threshold_cycles

\* Line 279: if( i == i_end ), i_end = t->interruptions + g.max_interruptions
AtEnd(i) == i = g.max_interruptions

\* The buffer with slot i (0-based) written: the slots before it are the
\* records kept, slot i is the sample being looked at.
Store(buf, i, rec) == SubSeq(buf, 1, i) \o <<rec>>

\* Lines 273-281: one pass of the loop body, and lines 284-285 after the
\* break.  A write to a slot beyond the allocated bytes is undefined: the
\* store lands in memory the program does not own, or the process is killed;
\* the memory that stores can land in is finite, MaxRecords slots here.
Sample(t) ==
  /\ Running
  /\ pc[t] = "sample"
  /\ \E d \in Jumps :
       LET l == local[t]
           ts == Frc(d)
           diff == ToCycles(ts - l.prev_ts)
           buf == [threads EXCEPT ![t].interruptions =
                     Store(@, l.i, [ts |-> ts, diff |-> diff])]
           kept == [l EXCEPT !.prev_ts = ts, !.int_total = Accumulate(@, diff),
                             !.i = @ + 1]
       IN  /\ tsc' = ts
           /\ ticks' = ticks + d
           /\ \/ /\ l.i < MaxRecords
                 /\ IF Qualifies(diff, l.threshold_cycles)
                    THEN /\ local' = [local EXCEPT ![t] = kept]
                         /\ IF AtEnd(kept.i)
                            THEN /\ threads' = DoitReturn(t, buf, kept)
                                 /\ pc' = [pc EXCEPT ![t] = "frc_stop"]
                            ELSE /\ threads' = buf
                                 /\ pc' = [pc EXCEPT ![t] = "loop"]
                    ELSE /\ local' = [local EXCEPT ![t].prev_ts = ts]
                         /\ threads' = buf
                         /\ pc' = [pc EXCEPT ![t] = "loop"]
                 /\ UNCHANGED exit_status
              \/ /\ l.i >= threads[t].allocated
                 /\ exit_status' = Killed
                 /\ UNCHANGED <<threads, local, pc>>
  /\ UNCHANGED <<g, main, alarm_pending>>

\* Line 318: frc(&t->frc_stop)
FrcStop(t) ==
  /\ Running
  /\ pc[t] = "frc_stop"
  /\ \E d \in Jumps :
       /\ threads' = [threads EXCEPT ![t].frc_stop = Frc(d)]
       /\ tsc' = Frc(d)
       /\ ticks' = ticks + d
  /\ pc' = [pc EXCEPT ![t] = "inc_finished"]
  /\ UNCHANGED <<g, local, main, alarm_pending, exit_status>>

\* Line 323: atomic_inc(&g.n_threads_finished)
IncFinished(t) ==
  /\ Running
  /\ pc[t] = "inc_finished"
  /\ g' = [g EXCEPT !.n_threads_finished = ToUnsigned(@ + 1)]
  /\ pc' = [pc EXCEPT ![t] = "end_barrier"]
  /\ UNCHANGED <<threads, local, main, alarm_pending, tsc, ticks, exit_status>>

\* Mutant of EndBarrierOpen: a worker waits for one finished worker only.
EndBarrierOpenForOne == g.n_threads_finished # 0

\* Line 324: the condition that lets a worker leave the end barrier
EndBarrierOpen == g.n_threads_finished = g.n_threads

\* Lines 324-327: while( g.n_threads_finished != g.n_threads ) relax();
\* return NULL.
EndBarrier(t) ==
  /\ Running
  /\ pc[t] = "end_barrier"
  /\ EndBarrierOpen
  /\ pc' = [pc EXCEPT ![t] = "returned"]
  /\ local' = [local EXCEPT ![t] = NullLocal]
  /\ UNCHANGED <<g, threads, main, alarm_pending, tsc, ticks, exit_status>>

Worker(t) ==
  \/ ThreadStart(t)
  \/ WaitGo(t)
  \/ MeasureAgain(t)
  \/ MeasureDone(t)
  \/ StartBarrier(t)
  \/ DoitEnter(t)
  \/ LoopCheck(t)
  \/ Sample(t)
  \/ FrcStop(t)
  \/ IncFinished(t)
  \/ EndBarrier(t)

(***************************************************************************)
(* The SIGALRM handler, lines 612-615, run when the timer alarm() armed    *)
(* expires.                                                                *)
(***************************************************************************)
handle_alarm ==
  /\ Running
  /\ alarm_pending
  /\ alarm_pending' = FALSE
  /\ g' = [g EXCEPT !.cmd = STOP]
  /\ UNCHANGED <<threads, pc, local, main, tsc, ticks, exit_status>>

(***************************************************************************)
(* run_expt, lines 547-572, called by main() for the calibration run       *)
(* (main.run = 1) and for the full run (main.run = 2).                     *)
(***************************************************************************)
\* The argument main() passes as runtime_secs (lines 743, 746)
RuntimeSecs == IF main.run = 1 THEN CalibrationSecs ELSE main.runtime

\* Lines 551-556
RunExptReset ==
  /\ Running
  /\ main.pc = "run_expt"
  /\ g' = [g EXCEPT !.runtime_secs = ToUnsigned(RuntimeSecs),
                    !.n_threads_started = 0, !.n_threads_running = 0,
                    !.n_threads_finished = 0, !.cmd = WAIT]
  /\ main' = [main EXCEPT !.pc = "create", !.i = 0]
  /\ UNCHANGED <<threads, pc, local, alarm_pending, tsc, ticks, exit_status>>

\* Lines 558-560: pthread_create of worker main.i
CreateThread ==
  /\ Running
  /\ main.pc = "create"
  /\ main.i < g.n_threads
  /\ pc' = [pc EXCEPT ![main.i] = "thread_main"]
  /\ main' = [main EXCEPT !.i = @ + 1,
                          !.pc = IF main.i + 1 = g.n_threads THEN "wait_started"
                                 ELSE "create"]
  /\ UNCHANGED <<g, threads, local, alarm_pending, tsc, ticks, exit_status>>

\* Mutant of AllStarted: main() waits for one started worker only.
SomeStarted == g.n_threads_started # 0

\* Line 561: the condition main() polls for before it gives the GO
AllStarted == g.n_threads_started = g.n_threads

\* Lines 561-564: while( g.n_threads_started != g.n_threads ) usleep(1000);
\* then g.cmd = GO.
SetGo ==
  /\ Running
  /\ main.pc = "wait_started"
  /\ AllStarted
  /\ g' = [g EXCEPT !.cmd = GO]
  /\ main' = [main EXCEPT !.pc = "alarm"]
  /\ UNCHANGED <<threads, pc, local, alarm_pending, tsc, ticks, exit_status>>

\* alarm(secs) arms the timer, and alarm(0) only cancels a pending one.
Armed(secs) == secs > 0

\* Line 566: alarm(g.runtime_secs)
Alarm ==
  /\ Running
  /\ main.pc = "alarm"
  /\ alarm_pending' = Armed(g.runtime_secs)
  /\ main' = [main EXCEPT !.pc = "join", !.i = 0]
  /\ UNCHANGED <<g, threads, pc, local, tsc, ticks, exit_status>>

\* Mutant of JoinThread: the join does not wait for the worker.
JoinThreadNoWait ==
  /\ Running
  /\ main.pc = "join"
  /\ main.i < g.n_threads
  /\ pc' = [pc EXCEPT ![main.i] = IF @ = "returned" THEN "joined" ELSE @]
  /\ main' = [main EXCEPT !.i = @ + 1,
                          !.pc = IF main.i + 1 = g.n_threads THEN "post_test_checks"
                                 ELSE "join"]
  /\ UNCHANGED <<g, threads, local, alarm_pending, tsc, ticks, exit_status>>

\* Lines 569-570: pthread_join of worker main.i returns once it has returned
\* from thread_main.
JoinThread ==
  /\ Running
  /\ main.pc = "join"
  /\ main.i < g.n_threads
  /\ pc[main.i] = "returned"
  /\ pc' = [pc EXCEPT ![main.i] = "joined"]
  /\ main' = [main EXCEPT !.i = @ + 1,
                          !.pc = IF main.i + 1 = g.n_threads THEN "post_test_checks"
                                 ELSE "join"]
  /\ UNCHANGED <<g, threads, local, alarm_pending, tsc, ticks, exit_status>>

\* Mutant of FinishedEarly: only a cursor beyond the capacity counts.
FinishedEarlyBeyond(t) == Count(t) > g.max_interruptions

\* Line 399: t->c_interruption - t->interruptions == g.max_interruptions
FinishedEarly(t) == Count(t) = g.max_interruptions

\* post_test_checks, lines 391-412, and the return of run_expt to main().
PostTestChecks ==
  /\ Running
  /\ main.pc = "post_test_checks"
  /\ IF \E t \in Threads : FinishedEarly(t)
     THEN /\ exit_status' = Exited(ExitOverflow)
          /\ UNCHANGED main
     ELSE /\ main' = [main EXCEPT !.pc = IF main.run = 1 THEN "calc_max_interruptions"
                                         ELSE "write_summary",
                                  !.i = 0]
          /\ UNCHANGED exit_status
  /\ UNCHANGED <<g, threads, pc, local, alarm_pending, tsc, ticks>>

(***************************************************************************)
(* main(), lines 744-745: between the two runs.                            *)
(***************************************************************************)
RECURSIVE MaxCount(_)
\* Lines 593-600: the largest t->int_n of the first n threads.
MaxCount(n) ==
  IF n = 0 THEN 0
  ELSE LET m == MaxCount(n - 1)
           int_n == ToUnsigned(Count(n - 1))
       IN  IF int_n > ToUnsigned(m) THEN ToInt(int_n) ELSE m

\* Lines 605-608: the capacity for a run of [runtime] seconds.
NewMaxInterruptions(max, runtime) ==
  LET q == ToInt(ToUnsigned(max) \div g.runtime_secs)
      per_sec == IF q < MinPerSec THEN MinPerSec ELSE q
  IN  ToUnsigned(ToInt(per_sec * 2) * runtime)

\* calc_max_interruptions, lines 587-609
CalcMaxInterruptions ==
  /\ Running
  /\ main.pc = "calc_max_interruptions"
  /\ threads' = [t \in Threads |->
                   [threads[t] EXCEPT !.int_n = ToUnsigned(Count(t))]]
  /\ g' = [g EXCEPT !.max_interruptions =
                      NewMaxInterruptions(MaxCount(g.n_threads), main.runtime)]
  /\ main' = [main EXCEPT !.pc = "cleanup_expt"]
  /\ UNCHANGED <<pc, local, alarm_pending, tsc, ticks, exit_status>>

\* cleanup_expt, lines 575-584: the buffers are freed, which leaves the
\* cursor t->c_interruption dangling (-1 here).
CleanupExpt ==
  /\ Running
  /\ main.pc = "cleanup_expt"
  /\ threads' = [t \in Threads |->
                   [threads[t] EXCEPT !.interruptions = <<>>, !.allocated = -1,
                                      !.c_interruption = -1,
                                      !.sorted = <<>>]]
  /\ main' = [main EXCEPT !.pc = "run_expt", !.run = 2]
  /\ UNCHANGED <<g, pc, local, alarm_pending, tsc, ticks, exit_status>>

(***************************************************************************)
(* The statistics: sort_interruptions and thread_calc_stats, lines 331-388. *)
(***************************************************************************)
\* qsort_cmp_interruption, lines 331-336: (int) ((*a)->diff - (*b)->diff)
qsort_cmp_interruption(a, b) == ToInt(ToCycles(a.diff - b.diff))

\* The orders of positions 1 .. n
Orders(n) ==
  {p \in [1 .. n -> 1 .. n] : \A i, j \in 1 .. n : p[i] = p[j] => i = j}

\* qsort (line 351) of the n pointers to the records of buf: any order of
\* them in which no element compares greater than a later one.  When the
\* comparison admits no such order it is not an order at all and qsort's
\* result is left open by the C library: any order of the pointers.
QsortOutcomes(buf, n) ==
  LET ordered == {p \in Orders(n) :
                    \A i, j \in 1 .. n :
                      i < j => qsort_cmp_interruption(buf[p[i]], buf[p[j]]) <= 0}
  IN  IF ordered # {} THEN ordered ELSE Orders(n)

\* (int) (t->int_n * 0.9) and the like, lines 367-371: the double product
\* truncated, which is the integer part of n * num / den for every n a
\* buffer can hold.
PercentileIndex(n, num, den) == (n * num) \div den

RECURSIVE SumOfBuffer(_, _)
\* Lines 372-374: sum += i->diff over the first n records
SumOfBuffer(buf, n) ==
  IF n = 0 THEN 0 ELSE ToCycles(SumOfBuffer(buf, n - 1) + buf[n].diff)

\* Mutant of thread_calc_stats: the records themselves are sorted, in the
\* buffer, instead of the pointers to them.
thread_calc_stats_in_place(thr, p) ==
  LET int_n == ToUnsigned(thr.c_interruption)
      runtime == ToCycles(thr.frc_stop - thr.frc_start)
      buf == [k \in 1 .. Len(thr.interruptions) |->
                IF k <= int_n THEN thr.interruptions[p[k]]
                ELSE thr.interruptions[k]]
      gap(k) == buf[k + 1].diff
  IN  IF int_n # 0
      THEN [thr EXCEPT !.runtime = runtime, !.int_n = int_n, !.sorted = p,
                       !.interruptions = buf,
                       !.int_min = gap(0),
                       !.int_max = gap(int_n - 1),
                       !.int_median = gap(int_n \div 2),
                       !.int_90 = gap(PercentileIndex(int_n, 9, 10)),
                       !.int_99 = gap(PercentileIndex(int_n, 99, 100)),
                       !.int_999 = gap(PercentileIndex(int_n, 999, 1000)),
                       !.int_9999 = gap(PercentileIndex(int_n, 9999, 10000)),
                       !.int_99999 = gap(PercentileIndex(int_n, 99999, 100000)),
                       !.int_mean = SumOfBuffer(buf, int_n) \div int_n]
      ELSE [thr EXCEPT !.runtime = runtime, !.int_n = int_n,
                       !.int_min = 0, !.int_max = 0, !.int_median = 0,
                       !.int_90 = 0, !.int_99 = 0, !.int_999 = 0,
                       !.int_9999 = 0, !.int_99999 = 0, !.int_mean = 0]

\* thread_calc_stats, lines 355-388, of the thread record thr, with p the
\* order qsort leaves in t->sorted.
thread_calc_stats(thr, p) ==
  LET int_n == ToUnsigned(thr.c_interruption)
      runtime == ToCycles(thr.frc_stop - thr.frc_start)
      gap(k) == thr.interruptions[p[k + 1]].diff
  IN  IF int_n # 0
      THEN [thr EXCEPT !.runtime = runtime, !.int_n = int_n, !.sorted = p,
                       !.int_min = gap(0),
                       !.int_max = gap(int_n - 1),
                       !.int_median = gap(int_n \div 2),
                       !.int_90 = gap(PercentileIndex(int_n, 9, 10)),
                       !.int_99 = gap(PercentileIndex(int_n, 99, 100)),
                       !.int_999 = gap(PercentileIndex(int_n, 999, 1000)),
                       !.int_9999 = gap(PercentileIndex(int_n, 9999, 10000)),
                       !.int_99999 = gap(PercentileIndex(int_n, 99999, 100000)),
                       !.int_mean = SumOfBuffer(thr.interruptions, int_n) \div int_n]
      ELSE [thr EXCEPT !.runtime = runtime, !.int_n = int_n,
                       !.int_min = 0, !.int_max = 0, !.int_median = 0,
                       !.int_90 = 0, !.int_99 = 0, !.int_999 = 0,
                       !.int_9999 = 0, !.int_99999 = 0, !.int_mean = 0]

\* write_summary, lines 518-519: thread_calc_stats(&(t[i])) for thread main.i
CalcStats ==
  /\ Running
  /\ main.pc = "write_summary"
  /\ main.i < g.n_threads
  /\ \E p \in QsortOutcomes(threads[main.i].interruptions, Count(main.i)) :
       threads' = [threads EXCEPT ![main.i] = thread_calc_stats(@, p)]
  /\ main' = [main EXCEPT !.i = @ + 1]
  /\ UNCHANGED <<g, pc, local, alarm_pending, tsc, ticks, exit_status>>

\* Lines 521-543 and 755: the table is printed and main() returns.
MainReturn ==
  /\ Running
  /\ main.pc = "write_summary"
  /\ main.i = g.n_threads
  /\ exit_status' = Exited(0)
  /\ UNCHANGED <<g, threads, pc, local, main, alarm_pending, tsc, ticks>>

Next ==
  \/ \E t \in Threads : Worker(t)
  \/ handle_alarm
  \/ RunExptReset
  \/ CreateThread
  \/ SetGo
  \/ Alarm
  \/ JoinThread
  \/ PostTestChecks
  \/ CalcMaxInterruptions
  \/ CleanupExpt
  \/ CalcStats
  \/ MainReturn

Spec == Init /\ [][Next]_vars

(***************************************************************************)
(* Scheduling: every thread that can take a step eventually takes one, the *)
(* armed timer eventually expires, and the frequency measurements          *)
(* eventually agree (measure_cpu_mhz returns).                             *)
(***************************************************************************)
MainStep ==
  \/ RunExptReset
  \/ CreateThread
  \/ SetGo
  \/ Alarm
  \/ JoinThread
  \/ PostTestChecks
  \/ CalcMaxInterruptions
  \/ CleanupExpt
  \/ CalcStats
  \/ MainReturn

Fairness ==
  /\ \A t \in Threads : WF_vars(Worker(t)) /\ WF_vars(MeasureDone(t))
  /\ WF_vars(handle_alarm)
  /\ WF_vars(MainStep)

FairSpec == Init /\ [][Next]_vars /\ Fairness

(***************************************************************************)
(* The statistics on their own: main() at write_summary (line 751) after a *)
(* full run of the default length that every worker ended on STOP with up  *)
(* to MaxGaps records, each record one of the Gaps after the one before    *)
(* it.  The largest of the Gaps is a stall of half the range of int, plus  *)
(* one cycle (2^31 + 1 cycles in the build, a second or less).             *)
(***************************************************************************)
Gaps == {1, 2, IntMod \div 2 + 1}

GapSeqs == UNION {[1 .. n -> Gaps] : n \in 0 .. MaxGaps}

RECURSIVE RecordsOf(_, _, _)
\* The first n records of a worker that read prev_ts = start on entering
\* doit (line 271) and kept a sample after each of the gaps (lines 273-278).
RecordsOf(start, gaps, n) ==
  IF n = 0 THEN <<>>
  ELSE LET before == RecordsOf(start, gaps, n - 1)
           prev_ts == IF n = 1 THEN start ELSE before[n - 1].ts
       IN  Append(before, [ts |-> ToCycles(prev_ts + gaps[n]),
                           diff |-> gaps[n]])

\* struct thread of a worker that has run thread_main to its return with
\* those records in a buffer of the capacity max.
CompletedThread(start, gaps, max) ==
  LET buf == RecordsOf(start, gaps, Len(gaps))
  IN  [NullThread EXCEPT
         !.cpu_mhz = CHOOSE m \in {hz \div 1000000 : hz \in HzSet} : TRUE,
         !.interruptions = buf,
         !.allocated = max,
         !.c_interruption = Len(gaps),
         !.int_total = SumOfBuffer(buf, Len(gaps)),
         !.frc_start = start,
         !.frc_stop = IF gaps = <<>> THEN start ELSE buf[Len(gaps)].ts]

StatsInit ==
  \* The capacity calc_max_interruptions gives after a quiet calibration run.
  /\ g = [max_interruptions |-> 2 * MinPerSec * DefaultRuntime,
          runtime_secs |-> DefaultRuntime, threshold_nsec |-> 10,
          n_threads |-> Cardinality(Threads), cmd |-> STOP,
          n_threads_started |-> Cardinality(Threads),
          n_threads_running |-> Cardinality(Threads),
          n_threads_finished |-> Cardinality(Threads)]
  /\ \E start \in FrcStarts :
       /\ \E gaps \in [Threads -> GapSeqs] :
            threads = [t \in Threads |->
                         CompletedThread(start, gaps[t], g.max_interruptions)]
       /\ tsc \in {threads[t].frc_stop : t \in Threads}
       /\ \A t \in Threads :
            ToCycles(threads[t].frc_stop - start) <= ToCycles(tsc - start)
  /\ pc = [t \in Threads |-> "joined"]
  /\ local = [t \in Threads |-> NullLocal]
  /\ main = [pc |-> "write_summary", i |-> 0, runtime |-> DefaultRuntime,
             run |-> 2]
  /\ alarm_pending = FALSE
  /\ ticks = MaxTicks
  /\ exit_status = StillRunning

StatsNext == CalcStats \/ MainReturn

StatsSpec == StatsInit /\ [][StatsNext]_vars

(***************************************************************************)
(* The sizing of the full run on its own: main() at line 744 after a       *)
(* calibration run with the default capacity that every worker ended on    *)
(* STOP, having kept one of CalibrationCounts records, one per tick of the *)
(* counter.  The --runtime values are those of RuntimeOpts, one second,    *)
(* the first whose product with 2 * MinPerSec is beyond unsigned (2147484  *)
(* seconds in the build) and the first for which the bytes of the buffer   *)
(* are beyond unsigned (134218 seconds in the build).                      *)
(***************************************************************************)
CalibrationCounts ==
  {0, MinPerSec \div 2, MinPerSec, MinPerSec + 1, 2 * MinPerSec}

CalcRuntimes ==
  RuntimeOpts \cup {1, IntMod \div (2 * MinPerSec) + 1,
                    IntMod \div (2 * MinPerSec * SizeofInterruption) + 1}

\* struct thread of a worker that has run thread_main to its return having
\* kept n records with a gap of one cycle each.
SteadyThread(start, n, max) ==
  [NullThread EXCEPT
     !.cpu_mhz = CHOOSE m \in {hz \div 1000000 : hz \in HzSet} : TRUE,
     !.interruptions = [k \in 1 .. n |-> [ts |-> ToCycles(start + k), diff |-> 1]],
     !.allocated = max,
     !.c_interruption = n,
     !.int_total = ToCycles(n),
     !.frc_start = start,
     !.frc_stop = ToCycles(start + n)]

CalcInit ==
  /\ g = [max_interruptions |-> DefaultMaxInterruptions,
          runtime_secs |-> CalibrationSecs, threshold_nsec |-> 10,
          n_threads |-> Cardinality(Threads), cmd |-> STOP,
          n_threads_started |-> Cardinality(Threads),
          n_threads_running |-> Cardinality(Threads),
          n_threads_finished |-> Cardinality(Threads)]
  /\ \E start \in FrcStarts :
       /\ \E n \in [Threads -> CalibrationCounts] :
            threads = [t \in Threads |->
                         SteadyThread(start, n[t], g.max_interruptions)]
       /\ tsc \in {threads[t].frc_stop : t \in Threads}
       /\ \A t \in Threads :
            ToCycles(threads[t].frc_stop - start) <= ToCycles(tsc - start)
  /\ pc = [t \in Threads |-> "joined"]
  /\ local = [t \in Threads |-> NullLocal]
  /\ \E r \in CalcRuntimes :
       main = [pc |-> "calc_max_interruptions", i |-> 0, runtime |-> r,
               run |-> 1]
  /\ alarm_pending = FALSE
  /\ ticks = MaxTicks
  /\ exit_status = StillRunning

CalcNext == CalcMaxInterruptions \/ CleanupExpt

CalcSpec == CalcInit /\ [][CalcNext]_vars

\* The same, up to the point where the workers of the full run have their
\* buffers: main() lines 744-746, run_expt lines 551-560, thread_main
\* lines 301-305.
RestartNext ==
  \/ CalcMaxInterruptions
  \/ CleanupExpt
  \/ RunExptReset
  \/ CreateThread
  \/ \E t \in Threads : ThreadStart(t)

RestartSpec == CalcInit /\ [][RestartNext]_vars

(***************************************************************************)
(* The buffers of the calibration run on their own: main() at line 743     *)
(* with any --max value sscanf("%u") accepts (line 670), up to the point   *)
(* where the workers have their buffers.  The values are those of MaxOpts, *)
(* the first whose bytes are beyond int (134217728 in the build) and the   *)
(* first whose bytes are beyond unsigned (268435457 in the build).         *)
(***************************************************************************)
MaxArgs ==
  MaxOpts \cup {IntMod \div (2 * SizeofInterruption),
                IntMod \div SizeofInterruption + 1}

MaxArgInit ==
  /\ \E m \in MaxArgs, th \in ThresholdOpts :
       g = [max_interruptions |-> m, runtime_secs |-> 0, threshold_nsec |-> th,
            n_threads |-> Cardinality(Threads), cmd |-> WAIT,
            n_threads_started |-> 0, n_threads_running |-> 0,
            n_threads_finished |-> 0]
  /\ threads = [t \in Threads |-> NullThread]
  /\ pc = [t \in Threads |-> "none"]
  /\ local = [t \in Threads |-> NullLocal]
  /\ \E r \in RuntimeOpts :
       main = [pc |-> "run_expt", i |-> 0, runtime |-> r, run |-> 1]
  /\ alarm_pending = FALSE
  /\ tsc \in FrcStarts
  /\ ticks = 0
  /\ exit_status = StillRunning

MaxArgNext ==
  \/ RunExptReset
  \/ CreateThread
  \/ \E t \in Threads : ThreadStart(t)

MaxArgSpec == MaxArgInit /\ [][MaxArgNext]_vars

(***************************************************************************)
(* main() before the first run, lines 660-741: the command line is parsed  *)
(* and each worker-to-be is given a core.  main.argv is the command line   *)
(* as main() reads it: how the options loop and the THRESHOLD_NSEC test    *)
(* end, the values of --max, --runtime and THRESHOLD_NSEC, and the --cores *)
(* argument as its comma-separated parts; main.cpus is the affinity mask   *)
(* of the process (sched_getaffinity).                                     *)
(***************************************************************************)
\* One part of a --cores argument: "low-high", "low", or anything else.
Tokens ==
  [kind : {"range"}, low : 0 .. NProcs - 1, high : 0 .. NProcs - 1]
    \cup [kind : {"single"}, low : 0 .. NProcs, high : {0}]
    \cup [kind : {"bad"}, low : {0}, high : {0}]

CoresArgs == UNION {[1 .. n -> Tokens] : n \in 0 .. MaxTokens}

Usages == {"ok", "help", "unknown_option", "no_threshold"}

SetupInit ==
  /\ g = [max_interruptions |-> DefaultMaxInterruptions, runtime_secs |-> 0,
          threshold_nsec |-> 0, n_threads |-> 0, cmd |-> WAIT,
          n_threads_started |-> 0, n_threads_running |-> 0,
          n_threads_finished |-> 0]
  /\ threads = <<>>
  /\ pc = [t \in Threads |-> "none"]
  /\ local = [t \in Threads |-> NullLocal]
  /\ \E usage \in Usages, th \in ThresholdOpts, r \in RuntimeOpts,
        given \in BOOLEAN, cores \in CoresArgs,
        cpus \in SUBSET (0 .. NProcs - 1) \ {{}} :
       /\ given \/ cores = <<>>
       /\ main = [pc |-> "args", i |-> 0, runtime |-> DefaultRuntime, run |-> 1,
                  argv |-> [usage |-> usage, threshold |-> th, runtime |-> r,
                            cores_given |-> given, cores |-> cores],
                  cpus |-> cpus, nprocs |-> NProcs,
                  cores |-> <<>>, n_cores |-> 0, cur_proc |-> 0]
  /\ alarm_pending = FALSE
  /\ tsc \in FrcStarts
  /\ ticks = 0
  /\ exit_status = StillRunning

\* Lines 662-704: the options loop and THRESHOLD_NSEC.
ParseArgs ==
  /\ Running
  /\ main.pc = "args"
  /\ CASE main.argv.usage = "help" ->
            /\ exit_status' = Exited(ExitHelp)
            /\ UNCHANGED <<g, main>>
       [] main.argv.usage \in {"unknown_option", "no_threshold"} ->
            /\ exit_status' = Exited(ExitUsage)
            /\ UNCHANGED <<g, main>>
       [] OTHER ->
            /\ g' = [g EXCEPT !.threshold_nsec = main.argv.threshold]
            /\ main' = [main EXCEPT !.runtime = main.argv.runtime,
                                    !.pc = "cores"]
            /\ UNCHANGED exit_status
  /\ UNCHANGED <<threads, pc, local, alarm_pending, tsc, ticks>>

\* The numbers low, low + 1, ... high (none when low > high), lines 640-641
RangeList(low, high) == [k \in 1 .. (high - low + 1) |-> low + k - 1]

RECURSIVE parse_comma_sep_ranges(_, _)
\* parse_comma_sep_ranges, lines 626-648, of the first n parts: whether it
\* returns true, and the list it has built.
parse_comma_sep_ranges(csr, n) ==
  IF n = 0 THEN [ok |-> TRUE, list |-> <<>>]
  ELSE LET before == parse_comma_sep_ranges(csr, n - 1)
           t == csr[n]
       IN  IF ~ before.ok THEN before
           ELSE CASE t.kind = "range" ->
                       [before EXCEPT !.list = @ \o RangeList(t.low, t.high)]
                  [] t.kind = "single" ->
                       [before EXCEPT !.list = Append(@, t.low)]
                  [] OTHER -> [before EXCEPT !.ok = FALSE]

\* Lines 706-718: n_cores, from the affinity mask or from --cores.
CountCores ==
  /\ Running
  /\ main.pc = "cores"
  /\ IF ~ main.argv.cores_given
     THEN /\ main' = [main EXCEPT !.n_cores = Cardinality(main.cpus),
                                  !.pc = "alloc"]
          /\ UNCHANGED exit_status
     ELSE LET parsed == parse_comma_sep_ranges(main.argv.cores,
                                               Len(main.argv.cores))
          IN  \/ /\ parsed.ok
                 /\ main' = [main EXCEPT !.cores = parsed.list,
                                         !.n_cores = Len(parsed.list),
                                         !.pc = "alloc"]
                 /\ UNCHANGED exit_status
              \/ /\ ~ parsed.ok
                 /\ exit_status' = Exited(ExitBadCores)
                 /\ UNCHANGED main
              \/ /\ parsed.list # <<>>
                 /\ exit_status' = Exited(ExitTestFail)
                 /\ UNCHANGED main
  /\ UNCHANGED <<g, threads, pc, local, alarm_pending, tsc, ticks>>

\* Lines 721-725: threads = malloc(...), which may fail; g.n_threads.
AllocThreads ==
  /\ Running
  /\ main.pc = "alloc"
  /\ \/ /\ threads' = [i \in 0 .. main.n_cores - 1 |-> [core_i |-> -1]]
        /\ g' = [g EXCEPT !.n_threads = ToUnsigned(main.n_cores)]
        /\ main' = [main EXCEPT !.pc = "assign", !.i = 0, !.cur_proc = 0]
        /\ UNCHANGED exit_status
     \/ /\ exit_status' = Exited(ExitTestFail)
        /\ UNCHANGED <<g, threads, main>>
  /\ UNCHANGED <<pc, local, alarm_pending, tsc, ticks>>

\* Lines 728-729: the first processor from cur on that is in the mask, or
\* nprocs.
NextProc(cur) ==
  LET rest == {c \in cur .. main.nprocs - 1 : c \in main.cpus}
  IN  IF rest = {} THEN main.nprocs
      ELSE CHOOSE c \in rest : \A d \in rest : c <= d

\* Lines 726-738: one pass of the loop that gives thread main.i its core.
AssignCore ==
  /\ Running
  /\ main.pc = "assign"
  /\ main.i # main.n_cores
  /\ LET cur_proc == NextProc(main.cur_proc)
     IN  IF cur_proc # main.nprocs
         THEN /\ threads' = [threads EXCEPT ![main.i].core_i = cur_proc]
              /\ main' = [main EXCEPT !.i = @ + 1, !.cur_proc = cur_proc + 1]
              /\ UNCHANGED exit_status
         ELSE /\ exit_status' = Exited(ExitNprocs)
              /\ UNCHANGED <<threads, main>>
  /\ UNCHANGED <<g, pc, local, alarm_pending, tsc, ticks>>

\* Lines 726 and 740-743: the loop is over and main() goes on to the first
\* run.
SetupDone ==
  /\ Running
  /\ main.pc = "assign"
  /\ main.i = main.n_cores
  /\ main' = [main EXCEPT !.pc = "run_expt", !.i = 0]
  /\ UNCHANGED <<g, threads, pc, local, alarm_pending, tsc, ticks, exit_status>>

SetupNext ==
  \/ ParseArgs
  \/ CountCores
  \/ AllocThreads
  \/ AssignCore
  \/ SetupDone

SetupSpec == SetupInit /\ [][SetupNext]_vars

(***************************************************************************)
(* Vocabulary of the properties.                                           *)
(***************************************************************************)
\* Worker t is in the sampling loop of doit.
InLoop(t) == pc[t] \in {"loop", "sample"}
\* Worker t has left the sampling loop and not yet returned.
LeftLoop(t) == pc[t] \in {"frc_stop", "inc_finished", "end_barrier"}
\* Worker t has passed the start barrier.
PastStartBarrier(t) ==
  InLoop(t) \/ LeftLoop(t) \/ pc[t] \in {"doit", "returned"}
\* Worker t of the run in progress has been joined.
JoinedInRun(t) == pc[t] = "joined" /\ main.pc = "join"
\* The number of records worker t has kept: the loop's cursor while it
\* samples, t->c_interruption - t->interruptions otherwise.
Cursor(t) == IF InLoop(t) THEN local[t].i ELSE Count(t)
\* The running total of worker t.
Total(t) == IF InLoop(t) THEN local[t].int_total ELSE threads[t].int_total

RECURSIVE SumDiffs(_, _)
\* The sum, in cycles_t arithmetic, of the gaps of the first n records of buf.
SumDiffs(buf, n) ==
  IF n <= 0 THEN 0 ELSE ToCycles(SumDiffs(buf, n - 1) + buf[n].diff)

(***************************************************************************)
(* C1.  Every record a worker keeps (the slots below its cursor) has a gap *)
(* of at least the worker's threshold_cycles; a pass of the loop whose     *)
(* read differs from the previous read by less than the threshold keeps no *)
(* record and adds nothing to the total, which both start at 0 and are     *)
(* published unchanged when the loop ends.                                 *)
(***************************************************************************)
RecordsAboveThreshold(t) ==
  \A k \in 1 .. Cursor(t) :
    /\ k <= Len(threads[t].interruptions)
    /\ threads[t].interruptions[k].diff >= ThresholdCycles(t)

SubThresholdPassKeepsNothing(t) ==
  /\ (pc[t] = "doit" /\ pc'[t] = "loop")
       => local'[t].i = 0 /\ local'[t].int_total = 0
  /\ (/\ pc[t] = "sample" /\ pc'[t] # "sample"
      /\ ToCycles(tsc' - local[t].prev_ts) < ThresholdCycles(t))
       => /\ pc'[t] = "loop"
          /\ local'[t].i = local[t].i
          /\ local'[t].int_total = local[t].int_total
  /\ (InLoop(t) /\ pc'[t] = "frc_stop")
       => /\ threads'[t].c_interruption = local'[t].i
          /\ threads'[t].int_total = local'[t].int_total

C1_NoSubThresholdRecord ==
  /\ [](\A t \in Threads : RecordsAboveThreshold(t))
  /\ [][\A t \in Threads : SubThresholdPassKeepsNothing(t)]_vars

\* A worker has left the loop with a record kept and, in the slot after it,
\* a sample that was below its non-zero threshold.
C1_Witness ==
  \E t \in Threads :
    /\ LeftLoop(t)
    /\ ThresholdCycles(t) > 0
    /\ Count(t) > 0
    /\ Len(threads[t].interruptions) > Count(t)
    /\ threads[t].interruptions[Count(t) + 1].diff < ThresholdCycles(t)

(***************************************************************************)
(* C2.  At every point of a run the number of records of every worker is   *)
(* at most the run's capacity g.max_interruptions.                         *)
(***************************************************************************)
C2_CountWithinCapacity ==
  \A t \in Threads :
    (InLoop(t) \/ LeftLoop(t) \/ pc[t] = "returned")
      => Cursor(t) <= g.max_interruptions

\* The same for the capacities of at least one record, where the loop does
\* stop at the capacity: a worker still in the loop is below it.
CountWithinPositiveCapacity ==
  \A t \in Threads :
    g.max_interruptions > 0 =>
      /\ (InLoop(t) \/ LeftLoop(t) \/ pc[t] = "returned")
           => Cursor(t) <= g.max_interruptions
      /\ InLoop(t) => Cursor(t) < g.max_interruptions

(***************************************************************************)
(* C3.  The process ends with the overflow status only from                *)
(* post_test_checks, with every worker joined and some worker's count      *)
(* equal to the capacity, and then neither the full run (after the         *)
(* calibration run) nor the statistics follow; and run_expt returns to     *)
(* main() only when no worker's count equals the capacity.                 *)
(***************************************************************************)
C3_OverflowIsFatal ==
  /\ exit_status = Exited(ExitOverflow) =>
       /\ main.pc = "post_test_checks"
       /\ \A t \in Threads : pc[t] = "joined"
       /\ \E t \in Threads : Count(t) = g.max_interruptions
  /\ (main.pc = "calc_max_interruptions" \/ main.pc = "write_summary") =>
       /\ exit_status # Exited(ExitOverflow)
       /\ \A t \in Threads : Count(t) # g.max_interruptions

\* The calibration run has ended with the overflow status because of one
\* worker, while another worker stayed below the capacity.
C3_Witness ==
  /\ exit_status = Exited(ExitOverflow)
  /\ main.run = 1
  /\ \E t \in Threads : Count(t) < g.max_interruptions

(***************************************************************************)
(* C4.  Start barrier: while any worker is past the barrier (has taken its *)
(* start timestamp, samples, or is beyond), every worker of the run has    *)
(* seen the command leave WAIT and incremented g.n_threads_running, which  *)
(* equals g.n_threads; a worker before the barrier has an empty buffer.    *)
(***************************************************************************)
C4_StartBarrier ==
  \A t \in Threads :
    /\ PastStartBarrier(t) =>
         /\ g.n_threads_running = g.n_threads
         /\ g.cmd # WAIT
         /\ \A u \in Threads :
              pc[u] = "start_barrier" \/ PastStartBarrier(u) \/ JoinedInRun(u)
    /\ pc[t] \in {"wait_go", "measure", "start_barrier"} =>
         /\ threads[t].interruptions = <<>>
         /\ Count(t) = 0

\* One worker samples while another has only just arrived at the barrier.
C4_Witness ==
  \E t, u \in Threads : pc[t] = "sample" /\ pc[u] = "start_barrier"

(***************************************************************************)
(* C5.  End barrier: while any worker has returned from thread_main, every *)
(* worker of the run has left its loop, taken its stop timestamp and       *)
(* incremented g.n_threads_finished, which equals g.n_threads.             *)
(***************************************************************************)
C5_EndBarrier ==
  \A t \in Threads :
    (pc[t] = "returned" \/ JoinedInRun(t)) =>
      /\ g.n_threads_finished = g.n_threads
      /\ \A u \in Threads :
           pc[u] \in {"end_barrier", "returned"} \/ JoinedInRun(u)

\* A worker has returned in a run in which a worker filled its buffer while
\* the command was still GO.
C5_Witness ==
  \E t, u \in Threads :
    /\ pc[t] = "returned"
    /\ g.cmd = GO
    /\ g.max_interruptions > 0
    /\ Count(u) = g.max_interruptions

(***************************************************************************)
(* C6.  A worker whose loop-top check reads a command other than GO leaves *)
(* the loop at once, without another pass; from then until it is joined    *)
(* its buffer, its count and its int_total do not change.  A pass in       *)
(* flight is completed whatever the command: the sample is stored, and     *)
(* kept and added to the total if it is at least the threshold.            *)
(***************************************************************************)
NoRecordAfterStop(t) ==
  /\ (pc[t] = "loop" /\ g.cmd # GO /\ pc'[t] # "loop") =>
       /\ pc'[t] = "frc_stop"
       /\ threads'[t].interruptions = threads[t].interruptions
       /\ threads'[t].c_interruption = local[t].i
       /\ threads'[t].int_total = local[t].int_total
  /\ ((LeftLoop(t) \/ pc[t] = "returned") /\ pc'[t] # "thread_main") =>
       /\ LeftLoop(t)' \/ pc'[t] \in {"returned", "joined"}
       /\ threads'[t].interruptions = threads[t].interruptions
       /\ threads'[t].c_interruption = threads[t].c_interruption
       /\ threads'[t].int_total = threads[t].int_total
  /\ (pc[t] = "sample" /\ pc'[t] # "sample") =>
       LET rec == threads'[t].interruptions[local[t].i + 1]
       IN  /\ rec = [ts |-> tsc', diff |-> ToCycles(tsc' - local[t].prev_ts)]
           /\ IF rec.diff >= ThresholdCycles(t)
              THEN /\ Cursor(t)' = local[t].i + 1
                   /\ Total(t)' = ToCycles(local[t].int_total + rec.diff)
              ELSE /\ Cursor(t)' = local[t].i
                   /\ Total(t)' = local[t].int_total

C6_NoRecordAfterStop == [][\A t \in Threads : NoRecordAfterStop(t)]_vars

\* The command is STOP while a pass of a worker's loop is in flight.
C6_Witness == \E t \in Threads : pc[t] = "sample" /\ g.cmd = STOP

(***************************************************************************)
(* C7.  Every run terminates: once main() waits for the workers it has     *)
(* created, run_expt eventually reaches post_test_checks (or the process   *)
(* has ended).                                                             *)
(***************************************************************************)
C7_EveryRunTerminates ==
  (main.pc = "wait_started") ~> (main.pc = "post_test_checks" \/ ~ Running)

\* The same for the runs whose timer is armed.
TimedRunTerminates ==
  (main.pc = "wait_started" /\ Armed(RuntimeSecs))
    ~> (main.pc = "post_test_checks" \/ ~ Running)

(***************************************************************************)
(* C8.  The total of a worker is the sum, in cycles_t arithmetic, of the   *)
(* gaps of the records below its cursor, while it samples and after it has *)
(* left the loop; the sample in the slot at the cursor is not part of it.  *)
(***************************************************************************)
C8_TotalIsSumOfGaps ==
  \A t \in Threads :
    (InLoop(t) \/ LeftLoop(t) \/ pc[t] = "returned" \/ JoinedInRun(t)) =>
      Total(t) = SumDiffs(threads[t].interruptions, Cursor(t))

\* A worker has left the loop with a non-zero total and a sub-threshold
\* sample in the slot after its last record.
C8_Witness ==
  \E t \in Threads :
    /\ LeftLoop(t)
    /\ threads[t].int_total > 0
    /\ Len(threads[t].interruptions) = Count(t) + 1

(***************************************************************************)
(* Vocabulary of the properties of the statistics.                         *)
(***************************************************************************)
\* thread_calc_stats has run for worker t.
StatsDone(t) == main.pc = "write_summary" /\ t < main.i

\* The gaps of the first n records of buf in ascending order.
AscendingGaps(buf, n) ==
  LET p == CHOOSE q \in Orders(n) :
             \A i, j \in 1 .. n : i < j => buf[q[i]].diff <= buf[q[j]].diff
  IN  [k \in 1 .. n |-> buf[p[k]].diff]

\* The statistics of worker t are the order statistics of its gaps, element
\* k (0-based) of the ascending gaps being s[k + 1].
IsOrderStatistics(t) ==
  LET thr == threads[t]
      n == Count(t)
      s == AscendingGaps(thr.interruptions, n)
  IN  /\ thr.int_n = n
      /\ IF n = 0
         THEN /\ thr.int_min = 0 /\ thr.int_max = 0 /\ thr.int_mean = 0
              /\ thr.int_median = 0 /\ thr.int_90 = 0 /\ thr.int_99 = 0
              /\ thr.int_999 = 0 /\ thr.int_9999 = 0 /\ thr.int_99999 = 0
         ELSE /\ thr.int_min = s[1]
              /\ thr.int_max = s[n]
              /\ thr.int_median = s[(n \div 2) + 1]
              /\ thr.int_90 = s[((n * 9) \div 10) + 1]
              /\ thr.int_99 = s[((n * 99) \div 100) + 1]
              /\ thr.int_999 = s[((n * 999) \div 1000) + 1]
              /\ thr.int_9999 = s[((n * 9999) \div 10000) + 1]
              /\ thr.int_99999 = s[((n * 99999) \div 100000) + 1]

\* The statistics of worker t do not decrease from the minimum over the
\* percentiles to the maximum.
IsMonotone(t) ==
  LET thr == threads[t]
  IN  /\ thr.int_min <= thr.int_median
      /\ thr.int_median <= thr.int_90
      /\ thr.int_90 <= thr.int_99
      /\ thr.int_99 <= thr.int_999
      /\ thr.int_999 <= thr.int_9999
      /\ thr.int_9999 <= thr.int_99999
      /\ thr.int_99999 <= thr.int_max

\* No two gaps of worker t differ by half the range of int or more, so
\* that the int the comparison returns has the sign of their difference.
CloseGaps(t) ==
  \A i, j \in 1 .. Count(t) :
    threads[t].interruptions[i].diff - threads[t].interruptions[j].diff
      < IntMod \div 2

(***************************************************************************)
(* C9.  Once thread_calc_stats has run for a worker with n records, its    *)
(* statistics are the nearest-rank order statistics of its gaps sorted     *)
(* ascending: minimum element 0, maximum element n - 1, median element     *)
(* floor(n / 2), percentile p element floor(n * p); for n = 0 the count    *)
(* and all statistics are 0.                                               *)
(***************************************************************************)
C9_OrderStatistics ==
  \A t \in Threads : StatsDone(t) => IsOrderStatistics(t)

\* The same for the buffers whose gaps are close to each other.
OrderStatisticsOfCloseGaps ==
  \A t \in Threads : (StatsDone(t) /\ CloseGaps(t)) => IsOrderStatistics(t)

\* The statistics of a full buffer of close gaps that are not all equal.
OrderStatisticsComputed ==
  \E t \in Threads :
    /\ StatsDone(t)
    /\ CloseGaps(t)
    /\ Count(t) = MaxGaps
    /\ threads[t].int_min < threads[t].int_max

(***************************************************************************)
(* C10.  Once thread_calc_stats has run for a worker with a non-empty      *)
(* buffer, whatever the magnitude of its gaps, int_min <= int_median <=    *)
(* int_90 <= int_99 <= int_999 <= int_9999 <= int_99999 <= int_max.        *)
(***************************************************************************)
C10_PercentilesMonotone ==
  \A t \in Threads : (StatsDone(t) /\ Count(t) > 0) => IsMonotone(t)

\* The same for the buffers whose gaps are close to each other.
MonotoneForCloseGaps ==
  \A t \in Threads :
    (StatsDone(t) /\ Count(t) > 0 /\ CloseGaps(t)) => IsMonotone(t)

(***************************************************************************)
(* Vocabulary of the properties of the sizing.                             *)
(***************************************************************************)
\* The larger of two numbers.
Larger(a, b) == IF a >= b THEN a ELSE b

\* The largest number of records a worker kept in the calibration run, per
\* second of that run.
PeakRate ==
  LET n == {threads[t].int_n : t \in Threads}
  IN  (CHOOSE m \in n : \A k \in n : k <= m) \div CalibrationSecs

\* 2 * max(R, 1000) * D as a number.
CapacityProduct == 2 * Larger(PeakRate, MinPerSec) * main.runtime

(***************************************************************************)
(* C11.  Once calc_max_interruptions has returned, the capacity of the     *)
(* full run is the product 2 * max(R, 1000) * D, R being the largest       *)
(* record count of the calibration run per second and D the --runtime      *)
(* value, for every R and D.                                               *)
(***************************************************************************)
C11_CapacityIsProduct ==
  (main.pc = "cleanup_expt" /\ main.run = 1) =>
    g.max_interruptions = CapacityProduct

\* The same for the products that an unsigned holds.
CapacityIsProductWithinUnsigned ==
  (main.pc = "cleanup_expt" /\ main.run = 1 /\ CapacityProduct < IntMod) =>
    g.max_interruptions = CapacityProduct

\* The capacity computed from a peak rate below the floor and the default
\* runtime.
CapacityFromFloor ==
  /\ main.pc = "cleanup_expt"
  /\ main.run = 1
  /\ main.runtime = DefaultRuntime
  /\ PeakRate = MinPerSec \div 2
  /\ g.max_interruptions = 2 * MinPerSec * DefaultRuntime

(***************************************************************************)
(* Vocabulary of the properties of a second pass of the statistics.        *)
(***************************************************************************)
\* What write_summary prints of a thread record, and its raw data.
Summary(thr) ==
  [int_n |-> thr.int_n, int_min |-> thr.int_min, int_max |-> thr.int_max,
   int_mean |-> thr.int_mean, int_median |-> thr.int_median,
   int_90 |-> thr.int_90, int_99 |-> thr.int_99, int_999 |-> thr.int_999,
   int_9999 |-> thr.int_9999, int_99999 |-> thr.int_99999,
   runtime |-> thr.runtime, int_total |-> thr.int_total,
   interruptions |-> thr.interruptions, c_interruption |-> thr.c_interruption]

\* thread_calc_stats run once more on worker t gives what the first pass
\* gave: unsort_interruptions hands qsort the same array of pointers and
\* the same records again, so qsort leaves the order it left before.
SecondPassSame(t) ==
  Summary(thread_calc_stats(threads[t], threads[t].sorted))
    = Summary(threads[t])

\* When the gaps are close, a pass over worker t gives what the first pass
\* gave with any order qsort may leave.
AnyOrderSame(t) ==
  CloseGaps(t) =>
    \A p \in QsortOutcomes(threads[t].interruptions, Count(t)) :
      Summary(thread_calc_stats(threads[t], p)) = Summary(threads[t])

\* The pass of thread_calc_stats over a worker leaves its raw data alone.
RawDataKept(t) ==
  (main.pc = "write_summary" /\ main.i = t /\ main'.i = t + 1) =>
    /\ threads'[t].interruptions = threads[t].interruptions
    /\ threads'[t].c_interruption = threads[t].c_interruption
    /\ threads'[t].int_total = threads[t].int_total
    /\ threads'[t].frc_start = threads[t].frc_start
    /\ threads'[t].frc_stop = threads[t].frc_stop

SecondPassSameForAnyOrder ==
  \A t \in Threads : StatsDone(t) => AnyOrderSame(t)

CoresChosen ==
  main.argv.cores_given /\ main.pc \in {"alloc", "assign", "run_expt"}

\* The cores of the chosen list.
ChosenCores == {main.cores[k] : k \in 1 .. Len(main.cores)}

\* main() is about to start the first run.
SetupOver == main.pc = "run_expt"

(***************************************************************************)
(* C13.  The exit status of the buffer overflow is the status of no other  *)
(* failure: the process never ends with it before post_test_checks, that   *)
(* is on a usage error, a badly formatted core list, an unavailable core   *)
(* or a failed allocation.                                                 *)
(***************************************************************************)
C13_OverflowStatusIsDistinct ==
  exit_status = Exited(ExitOverflow) => main.pc = "post_test_checks"

\* The same for the failures other than the badly formatted core list.
OtherFailuresAreDistinct ==
  (exit_status = Exited(ExitOverflow) /\ main.pc # "post_test_checks") =>
    /\ main.pc = "cores"
    /\ ~ parse_comma_sep_ranges(main.argv.cores, Len(main.argv.cores)).ok

(***************************************************************************)
(* C14.  When main() goes on to the first run with a chosen core list,     *)
(* every core of the list is available to the process (otherwise the       *)
(* program has ended, with no worker created) and every worker has a core  *)
(* of the list.                                                            *)
(***************************************************************************)
C14_CoreListHonoured ==
  (SetupOver /\ CoresChosen) =>
    /\ ChosenCores \subseteq main.cpus
    /\ \A i \in DOMAIN threads : threads[i].core_i \in ChosenCores

\* What does hold: no worker exists during the setup, and main() goes on
\* with as many workers as the list is long (as the mask has cores, without
\* a list), each on a core of its own that is available to the process.
WorkersOnAvailableCores ==
  /\ \A t \in Threads : pc[t] = "none"
  /\ SetupOver =>
       /\ DOMAIN threads = 0 .. main.n_cores - 1
       /\ main.n_cores = IF main.argv.cores_given THEN Len(main.cores)
                         ELSE Cardinality(main.cpus)
       /\ \A i \in DOMAIN threads : threads[i].core_i \in main.cpus
       /\ \A i, j \in DOMAIN threads :
            threads[i].core_i = threads[j].core_i => i = j

(***************************************************************************)
(* C15.  A worker that has incremented g.n_threads_started has completed   *)
(* its frequency calibration, and no worker calibrates while the command   *)
(* is GO.                                                                  *)
(***************************************************************************)
C15_CalibratedBeforeStarted ==
  \A t \in Threads :
    /\ (main.run = 1 /\ pc[t] = "wait_go") => threads[t].cpu_mhz # 0
    /\ pc[t] = "measure" => g.cmd # GO

\* What does hold: a worker calibrates only once the command has left
\* WAIT, and while any worker is past the start barrier every worker of the
\* run has its frequency.
CalibratedBeforeSampling ==
  \A t \in Threads :
    /\ pc[t] = "measure" => g.cmd # WAIT
    /\ PastStartBarrier(t) =>
         \A u \in Threads : JoinedInRun(u) \/ threads[u].cpu_mhz # 0

(***************************************************************************)
(* Vocabulary of the properties of the sort.                               *)
(***************************************************************************)
\* -1, 0 or 1 as x is negative, zero or positive.
Sign(x) == IF x < 0 THEN -1 ELSE IF x > 0 THEN 1 ELSE 0

\* The comparison of any two records of worker t has the sign of the
\* difference of their gaps.
ComparesAsGaps(t) ==
  \A i, j \in 1 .. Count(t) :
    LET a == threads[t].interruptions[i]
        b == threads[t].interruptions[j]
    IN  Sign(qsort_cmp_interruption(a, b)) = Sign(a.diff - b.diff)

\* t->sorted is a permutation of the records of worker t in non-decreasing
\* order of gap.
SortedAscending(t) ==
  LET p == threads[t].sorted
      n == Count(t)
  IN  /\ p \in Orders(n)
      /\ \A i, j \in 1 .. n :
           i < j => threads[t].interruptions[p[i]].diff
                      <= threads[t].interruptions[p[j]].diff

(***************************************************************************)
(* C16.  qsort_cmp_interruption(a, b) is negative, zero or positive        *)
(* exactly when a's gap is less than, equal to or greater than b's, for    *)
(* gaps of any magnitude, and after sort_interruptions t->sorted is a      *)
(* permutation of the records in non-decreasing order of gap.              *)
(***************************************************************************)
C16_ComparisonIsTotalOrder ==
  \A t \in Threads :
    /\ StatsDone(t) => ComparesAsGaps(t)
    /\ (StatsDone(t) /\ Count(t) > 0) => SortedAscending(t)

\* The same for the buffers whose gaps are close to each other.
TotalOrderOnCloseGaps ==
  \A t \in Threads :
    CloseGaps(t) =>
      /\ StatsDone(t) => ComparesAsGaps(t)
      /\ (StatsDone(t) /\ Count(t) > 0) => SortedAscending(t)

(***************************************************************************)
(* C17.  Within a run the command only moves forward through WAIT, GO,     *)
(* STOP: it becomes GO only from WAIT, by main() in run_expt when          *)
(* g.n_threads_started equals g.n_threads; it becomes STOP only from GO,   *)
(* by the timer's handler; and it becomes WAIT again only at the start of  *)
(* the next run, when every worker of the run has been joined.             *)
(***************************************************************************)
CommandMovesForward ==
  /\ (g'.cmd = GO /\ g.cmd # GO) =>
       /\ g.cmd = WAIT
       /\ g.n_threads_started = g.n_threads
       /\ main.pc = "wait_started"
  /\ (g'.cmd = STOP /\ g.cmd # STOP) =>
       /\ g.cmd = GO
       /\ alarm_pending /\ ~ alarm_pending'
       /\ main' = main
  /\ (g'.cmd = WAIT /\ g.cmd # WAIT) =>
       /\ main.pc = "run_expt"
       /\ \A t \in Threads : pc[t] = "joined"

C17_CommandMovesForward == [][CommandMovesForward]_vars

\* The timer of the full run has set STOP before a worker has seen the GO.
C17_Witness ==
  /\ main.run = 2
  /\ g.cmd = STOP
  /\ \E t \in Threads : pc[t] = "wait_go"

(***************************************************************************)
(* Vocabulary of the properties of ownership.                              *)
(***************************************************************************)
\* The fields of g only main() writes.
Configuration(glob) ==
  <<glob.max_interruptions, glob.runtime_secs, glob.threshold_nsec,
    glob.n_threads>>

\* A step of worker t (its position or its locals change) writes, of the
\* thread records, buffers and locals, only its own, and of g only the
\* phase counters.
WorkerWritesOwn(t) ==
  (/\ pc[t] \notin {"none", "returned", "joined"}
   /\ pc'[t] # pc[t] \/ local'[t] # local[t]) =>
    /\ \A u \in Threads \ {t} :
         /\ threads'[u] = threads[u]
         /\ local'[u] = local[u]
         /\ pc'[u] = pc[u]
    /\ Configuration(g') = Configuration(g)
    /\ g'.cmd = g.cmd
    /\ main' = main
    /\ alarm_pending' = alarm_pending

\* The handler (the pending timer goes) writes the command only; a step of
\* main() writes a thread record or the capacity only where it has joined
\* every worker.
OthersKeepOff ==
  /\ (alarm_pending /\ ~ alarm_pending') =>
       /\ threads' = threads
       /\ Configuration(g') = Configuration(g)
  /\ (main' # main /\ (threads' # threads
                         \/ g'.max_interruptions # g.max_interruptions)) =>
       \A t \in Threads : pc[t] = "joined"

\* Where main() reads the cursors, totals, timestamps and buffers.
MainReadsThreads ==
  main.pc \in {"post_test_checks", "calc_max_interruptions", "cleanup_expt",
               "write_summary"}

FullRunBegins == main.run = 2 /\ main.pc = "create" /\ main.i = 0

\* Nothing of the calibration run is left: its command, its counters, its
\* workers, its timer, its buffers.
CalibrationRunGone ==
  /\ g.cmd = WAIT
  /\ g.n_threads_started = 0
  /\ g.n_threads_running = 0
  /\ g.n_threads_finished = 0
  /\ \A t \in Threads : pc[t] = "joined"
  /\ ~ alarm_pending
  /\ \A t \in Threads :
       threads[t].interruptions = <<>> /\ threads[t].allocated = -1

\* Worker t of the full run has a new, empty buffer that holds the
\* capacity of the full run.
FreshBuffer(t) ==
  /\ threads[t].allocated = g.max_interruptions
  /\ threads[t].interruptions = <<>>
  /\ Count(t) = 0

(***************************************************************************)
(* C19.  Run state does not leak from the calibration run into the full    *)
(* run: when the first worker of the full run is created the command is    *)
(* WAIT, the counters are 0, the workers of the calibration run have       *)
(* terminated, no timer is pending and the calibration buffers are freed;  *)
(* and a worker of the full run starts with a newly allocated buffer of    *)
(* the new capacity and count 0.                                           *)
(***************************************************************************)
C19_NoLeakIntoFullRun ==
  /\ FullRunBegins => CalibrationRunGone
  /\ \A t \in Threads :
       (main.run = 2 /\ pc[t] = "wait_go") => FreshBuffer(t)

\* The same without the size of the new buffer.
NoLeakOfRunState ==
  /\ FullRunBegins => CalibrationRunGone
  /\ \A t \in Threads :
       (main.run = 2 /\ pc[t] = "wait_go") =>
         /\ threads[t].allocated >= 0
         /\ threads[t].interruptions = <<>>
         /\ Count(t) = 0

(***************************************************************************)
(* Vocabulary of the properties of a finished run.                         *)
(***************************************************************************)
\* Worker t has taken its stop timestamp and its results are still there.
RunDone(t) ==
  \/ pc[t] \in {"inc_finished", "end_barrier", "returned"}
  \/ /\ pc[t] = "joined"
     /\ main.pc \in {"join", "post_test_checks", "calc_max_interruptions",
                     "write_summary"}

\* The cycles from the start timestamp of worker t to the timestamp ts.
SinceStart(t, ts) == ToCycles(ts - threads[t].frc_start)

(***************************************************************************)
(* C20.  With a cycle counter that never runs backwards, after a run the   *)
(* total of every worker is at most its measured runtime frc_stop -        *)
(* frc_start, every timestamp it recorded lies between frc_start and       *)
(* frc_stop, and the timestamps do not decrease in buffer order.           *)
(***************************************************************************)
C20_TotalWithinRuntime ==
  \A t \in Threads :
    RunDone(t) =>
      /\ threads[t].int_total <= SinceStart(t, threads[t].frc_stop)
      /\ \A k \in 1 .. Count(t) :
           LET ts == threads[t].interruptions[k].ts
           IN  /\ SinceStart(t, ts) <= SinceStart(t, threads[t].frc_stop)
               /\ k > 1 =>
                    SinceStart(t, threads[t].interruptions[k - 1].ts)
                      <= SinceStart(t, ts)

\* A worker has finished a run all of whose measured time is interruption,
\* the counter having wrapped around since the program started.
C20_Witness ==
  \E t \in Threads :
    /\ RunDone(t)
    /\ Count(t) > 0
    /\ threads[t].int_total > 0
    /\ threads[t].int_total = SinceStart(t, threads[t].frc_stop)
    /\ threads[t].frc_stop < threads[t].frc_start

(***************************************************************************)
(* Vocabulary of the properties of the size of the buffer.                 *)
(***************************************************************************)
\* Worker t has run thread_init and its buffer has not been freed.
HasBuffer(t) == pc[t] \notin {"none", "thread_main", "joined"}

\* g.max_interruptions * sizeof(struct interruption), not converted to int
BytesOfCapacity == g.max_interruptions * SizeofInterruption

\* The bound doit uses, t->interruptions + g.max_interruptions (line 267),
\* is the end of the memory thread_init allocated for worker t.
EndIsEndOfBuffer(t) == threads[t].allocated = g.max_interruptions

(***************************************************************************)
(* C21.  For every capacity the program can use, thread_init allocates a   *)
(* buffer of exactly capacity records: the byte count it computes in an    *)
(* int is capacity * sizeof(record) without wrap-around, and the bound of  *)
(* the sampling loop, interruptions + capacity, never lies beyond the      *)
(* allocated memory.                                                       *)
(***************************************************************************)
C21_BufferHoldsCapacity ==
  \A t \in Threads :
    HasBuffer(t) => Bytes = BytesOfCapacity /\ EndIsEndOfBuffer(t)

\* Lemma: the same for the capacities whose bytes fit an int.
BufferHoldsCapacityWithinInt ==
  \A t \in Threads :
    (HasBuffer(t) /\ BytesOfCapacity < IntMod \div 2) =>
      Bytes = BytesOfCapacity /\ EndIsEndOfBuffer(t)

\* Lemma: a byte count beyond int is never the size of the buffer: the
\* worker gets a buffer shorter than the capacity.
WrappedBytesShortBuffer ==
  \A t \in Threads :
    (HasBuffer(t) /\ BytesOfCapacity >= IntMod \div 2) =>
      /\ Bytes # BytesOfCapacity
      /\ threads[t].allocated < g.max_interruptions

====
